---- MODULE Spec2Model ----
(***************************************************************************)
(* Model of cort/core/mention_extractor.py: the mention extractor and the  *)
(* seven post-processing filter stages over lists of Mention objects.      *)
(*                                                                         *)
(* A Mention is [span, attributes]; attributes is a mapping whose keys are *)
(* the record's fields, so that a lookup of a key the mapping lacks        *)
(* (Python's KeyError) is visible as "key \notin DOMAIN attributes".       *)
(* A stage returns a Result: [ok |-> TRUE, val |-> list] or, when the      *)
(* Python code raises, [ok |-> FALSE, val |-> <<>>].                       *)
(***************************************************************************)
EXTENDS Integers, Sequences, FiniteSets, TLC

VARIABLES document, system_mentions, pc, stage, stage_input, cascade

vars == <<document, system_mentions, pc, stage, stage_input, cascade>>

---------------------------------------------------------------------------
(* Bounds of the model. *)

\* token positions of the documents of the head-span and apposition families
MaxPos == 3
\* annotated mentions per document of those families
MaxMentions == 2
\* tokens of the documents of the text family
MaxTokens == 4

---------------------------------------------------------------------------
(* Spans (cort.core.spans, half-open token intervals <<begin, end>>). *)

None == <<>>

Spans(n) == {<<b, e>> : b \in 0..(n - 1), e \in 1..n} \cap
            {s \in (0..n) \X (0..n) : s[1] < s[2]}

SpanLt(s, t) == s[1] < t[1] \/ (s[1] = t[1] /\ s[2] < t[2])

SpanEmbeds(s, t) == s[1] <= t[1] /\ s[2] >= t[2] /\ s # t

---------------------------------------------------------------------------
(* Parse trees: a node is [label, kids]; len(tree) is the number of kids   *)
(* and "t in tree" is membership among the direct kids (a list's "in").    *)

Leaf(tok) == [label |-> tok, kids |-> <<>>]

Node(label, kids) == [label |-> label, kids |-> kids]

TreeLen(tree) == Len(tree.kids)

TreeIn(t, tree) == \E i \in 1..Len(tree.kids) : tree.kids[i] = t

---------------------------------------------------------------------------
(* Mentions (cort.core.mentions). *)

Mention_dummy_from_document(doc) ==
    [span |-> None, attributes |-> [is_dummy |-> TRUE, tokens |-> <<>>]]

Mention_from_document(span, doc) ==
    [span |-> span,
     attributes |->
        [tokens |-> SubSeq(doc.tokens, span[1] + 1, span[2]),
         pos |-> SubSeq(doc.pos, span[1] + 1, span[2]),
         ner |-> SubSeq(doc.ner, span[1] + 1, span[2]),
         head_index |-> doc.info[span].head_index,
         head_span |-> doc.info[span].head_span,
         type |-> doc.info[span].type,
         is_apposition |-> doc.info[span].is_apposition,
         parse_tree |-> doc.info[span].parse_tree]]

is_dummy(m) == "is_dummy" \in DOMAIN m.attributes /\ m.attributes.is_dummy

HasAttr(m, key) == key \in DOMAIN m.attributes

\* Mention.__lt__: the dummy precedes every other mention, the others are
\* ordered by span
MentionLt(a, b) ==
    IF is_dummy(a) THEN ~is_dummy(b)
    ELSE IF is_dummy(b) THEN FALSE
    ELSE SpanLt(a.span, b.span)

\* Mention.__eq__: same span (one document in the model)
MentionEq(a, b) == a.span = b.span

\* Mention.get_context(window), window > 0: the window tokens after the span,
\* or None when the document ends before
\* (self.document is the one document of the model)
get_context(m, window) ==
    IF m.span[2] + window <= Len(document.tokens)
    THEN [some |-> TRUE,
          val |-> SubSeq(document.tokens, m.span[2] + 1, m.span[2] + window)]
    ELSE [some |-> FALSE, val |-> <<>>]

---------------------------------------------------------------------------
(* Python built-ins used by the stages. *)

\* str.lower() on the tokens of the model's vocabulary
LowerTok(t) ==
    CASE t = "It" -> "it"
      [] t = "You" -> "you"
      [] t = "Um" -> "um"
      [] t = "US" -> "us"
      [] t = "U.S." -> "u.s."
      [] t = "John" -> "john"
      [] t = "CEO" -> "ceo"
      [] OTHER -> t

RECURSIVE Join(_)
\* " ".join(tokens)
Join(tokens) ==
    IF tokens = <<>> THEN ""
    ELSE IF Len(tokens) = 1 THEN tokens[1]
    ELSE tokens[1] \o " " \o Join(Tail(tokens))

\* " ".join(tokens).lower(): lower-casing works character by character, so
\* it is the join of the lower-cased tokens
JoinLower(tokens) == Join([i \in 1..Len(tokens) |-> LowerTok(tokens[i])])

\* re.match("^(JJ)", tag) over the part-of-speech tags of the model
ReMatchJJ(tag) == tag \in {"JJ", "JJR", "JJS"}

Ok(list) == [ok |-> TRUE, val |-> list]

Raise == [ok |-> FALSE, val |-> <<>>]

RECURSIVE InsertSorted(_, _)
\* x placed after every element of the sorted list s that is not greater
\* than it (sorted() is stable)
InsertSorted(s, x) ==
    IF s = <<>> THEN <<x>>
    ELSE IF MentionLt(x, s[1]) THEN <<x>> \o s
    ELSE <<s[1]>> \o InsertSorted(Tail(s), x)

RECURSIVE sorted(_)
\* sorted(list of Mention)
sorted(s) ==
    IF s = <<>> THEN <<>>
    ELSE InsertSorted(sorted(SubSeq(s, 1, Len(s) - 1)), s[Len(s)])

\* tuple comparison of (length, mention) pairs: the first component that
\* differs (by ==) decides (by <)
PairLt(p, q) ==
    IF p[1] # q[1] THEN p[1] < q[1]
    ELSE IF ~MentionEq(p[2], q[2]) THEN MentionLt(p[2], q[2])
    ELSE FALSE

RECURSIVE InsertSortedPair(_, _)
InsertSortedPair(s, x) ==
    IF s = <<>> THEN <<x>>
    ELSE IF PairLt(x, s[1]) THEN <<x>> \o s
    ELSE <<s[1]>> \o InsertSortedPair(Tail(s), x)

RECURSIVE sortedPairs(_)
\* sorted(list of (length, Mention))
sortedPairs(s) ==
    IF s = <<>> THEN <<>>
    ELSE InsertSortedPair(sortedPairs(SubSeq(s, 1, Len(s) - 1)), s[Len(s)])

\* TRUE iff a lookup attributes[k], k in keys, succeeds on every mention
AllHave(s, keys) == \A i \in 1..Len(s) : \A k \in keys : HasAttr(s[i], k)

---------------------------------------------------------------------------
(* mention_extractor.py *)

extract_system_mentions(doc, filter_mentions) ==
    LET system_mentions_0 ==
            [i \in 1..Len(doc.annotated_mentions) |->
                Mention_from_document(doc.annotated_mentions[i], doc)]
    IN  <<Mention_dummy_from_document(doc)>> \o system_mentions_0

HeadPos(mention) == mention.attributes.pos[mention.attributes.head_index + 1]

HeadNer(mention) == mention.attributes.ner[mention.attributes.head_index + 1]

post_process_by_head_pos(mentions) ==
    IF ~AllHave(mentions, {"pos", "head_index"}) THEN Raise
    ELSE Ok(sorted(SelectSeq(mentions,
                LAMBDA mention : ~ReMatchJJ(HeadPos(mention)))))

NamTypes == {"QUANTITY", "CARDINAL", "ORDINAL", "MONEY", "PERCENT"}

post_process_by_nam_type(mentions) ==
    IF \/ ~AllHave(mentions, {"type"})
       \/ \E i \in 1..Len(mentions) :
            /\ mentions[i].attributes.type = "NAM"
            /\ ~(HasAttr(mentions[i], "ner") /\ HasAttr(mentions[i], "head_index"))
    THEN Raise
    ELSE Ok(sorted(SelectSeq(mentions,
                LAMBDA mention : \/ mention.attributes.type # "NAM"
                                 \/ HeadNer(mention) \notin NamTypes)))

\* mutant: the exact-case test for "US" left out
post_process_weird_without_US(mentions) ==
    IF ~AllHave(mentions, {"tokens"}) THEN Raise
    ELSE Ok(sorted(SelectSeq(mentions,
                LAMBDA mention :
                    /\ JoinLower(mention.attributes.tokens)
                            \notin {"mm", "hmm", "ahem", "um"}
                    /\ Join(mention.attributes.tokens) # "U.S.")))

post_process_weird(mentions) ==
    IF ~AllHave(mentions, {"tokens"}) THEN Raise
    ELSE Ok(sorted(SelectSeq(mentions,
                LAMBDA mention :
                    /\ JoinLower(mention.attributes.tokens)
                            \notin {"mm", "hmm", "ahem", "um"}
                    /\ Join(mention.attributes.tokens) # "US"
                    /\ Join(mention.attributes.tokens) # "U.S.")))

\* mutant: only the 2-token context is looked at for "it"
Pleonastic_two_only(mention) ==
    \/ /\ JoinLower(mention.attributes.tokens) = "it"
       /\ LET context_two == get_context(mention, 2)
          IN  context_two.some /\ context_two.val[Len(context_two.val)] = "that"
    \/ /\ JoinLower(mention.attributes.tokens) = "you"
       /\ LET context_one == get_context(mention, 1)
          IN  context_one.some /\ context_one.val = <<"know">>

\* the body of the loop of post_process_pleonastic_pronoun: TRUE iff the
\* mention is skipped (continue)
Pleonastic(mention) ==
    \/ /\ JoinLower(mention.attributes.tokens) = "it"
       /\ LET context_two == get_context(mention, 2)
              context_three == get_context(mention, 3)
          IN  \/ context_two.some /\ context_two.val[Len(context_two.val)] = "that"
              \/ context_three.some
                    /\ context_three.val[Len(context_three.val)] = "that"
    \/ /\ JoinLower(mention.attributes.tokens) = "you"
       /\ LET context_one == get_context(mention, 1)
          IN  context_one.some /\ context_one.val = <<"know">>

post_process_pleonastic_pronoun(mentions) ==
    IF ~AllHave(mentions, {"tokens"}) THEN Raise
    ELSE Ok(sorted(SelectSeq(mentions, LAMBDA mention : ~Pleonastic(mention))))

RECURSIVE HeadSpanKeys(_)
\* the keys of head_span_to_mention, in insertion order
HeadSpanKeys(mentions) ==
    IF mentions = <<>> THEN <<>>
    ELSE LET front == HeadSpanKeys(SubSeq(mentions, 1, Len(mentions) - 1))
             key == mentions[Len(mentions)].attributes.head_span
         IN  IF \E i \in 1..Len(front) : front[i] = key THEN front
             ELSE Append(front, key)

\* head_span_to_mention[head_span]: the (length, mention) pairs of the
\* mentions with that head span, in list order
HeadSpanGroup(mentions, head_span) ==
    LET members == SelectSeq(mentions,
                        LAMBDA mention : mention.attributes.head_span = head_span)
    IN  [i \in 1..Len(members) |->
            <<members[i].span[2] - members[i].span[1], members[i]>>]

\* mutant: index 0 for index -1
SmallestOfGroup(group) ==
    LET s == sortedPairs(group) IN s[1][2]

\* sorted(head_span_to_mention[head_span])[-1][1]
LargestOfGroup(group) ==
    LET s == sortedPairs(group) IN s[Len(s)][2]

\* mutant: the mentions grouped by the end of their head span alone
post_process_same_head_end_largest_span(mentions) ==
    IF \/ ~AllHave(mentions, {"head_span"})
       \/ \E i \in 1..Len(mentions) : mentions[i].span = None
    THEN Raise
    ELSE LET ends == {mentions[i].attributes.head_span[2] : i \in 1..Len(mentions)}
             Group(e) ==
                LET members == SelectSeq(mentions,
                                LAMBDA mention : mention.attributes.head_span[2] = e)
                IN  [i \in 1..Len(members) |->
                        <<members[i].span[2] - members[i].span[1], members[i]>>]
             kept == {LargestOfGroup(Group(e)) : e \in ends}
         IN  Ok(sorted(SelectSeq(mentions, LAMBDA mention : mention \in kept)))

post_process_same_head_largest_span(mentions) ==
    IF \/ ~AllHave(mentions, {"head_span"})
       \/ \E i \in 1..Len(mentions) : mentions[i].span = None
    THEN Raise
    ELSE LET keys == HeadSpanKeys(mentions)
         IN  Ok(sorted([k \in 1..Len(keys) |->
                    LargestOfGroup(HeadSpanGroup(mentions, keys[k]))]))

\* mutant: the head-span begins not keyed by the head-span end
LeastHeadBeginOfAll(mentions, end) ==
    CHOOSE b \in {mentions[i].attributes.head_span[1] : i \in 1..Len(mentions)} :
        \A i \in 1..Len(mentions) : b <= mentions[i].attributes.head_span[1]

\* sorted(map_for_heads[end])[0]: the least head-span begin recorded for
\* that head-span end
LeastHeadBegin(mentions, end) ==
    CHOOSE b \in {mentions[i].attributes.head_span[1] : i \in
                    {j \in 1..Len(mentions) :
                        mentions[j].attributes.head_span[2] = end}} :
        \A i \in 1..Len(mentions) :
            mentions[i].attributes.head_span[2] = end
                => b <= mentions[i].attributes.head_span[1]

\* mutant: the test inverted, the embedded heads kept
post_process_embedded_head_inverted(mentions) ==
    IF ~AllHave(mentions, {"head_span"}) THEN Raise
    ELSE Ok(sorted(SelectSeq(mentions,
                LAMBDA mention :
                    LeastHeadBegin(mentions, mention.attributes.head_span[2])
                        < mention.attributes.head_span[1])))

post_process_embedded_head_largest_span(mentions) ==
    IF ~AllHave(mentions, {"head_span"}) THEN Raise
    ELSE Ok(sorted(SelectSeq(mentions,
                LAMBDA mention :
                    ~(LeastHeadBegin(mentions, mention.attributes.head_span[2])
                        < mention.attributes.head_span[1]))))

\* the inner loop of post_process_appositions: the value of embedded_in_appo
\* after it
EmbeddedInAppo(mention, appos) ==
    \E i \in 1..Len(appos) :
        /\ SpanEmbeds(appos[i].span, mention.span) /\ appos[i].span # mention.span
        /\ \/ TreeLen(appos[i].attributes.parse_tree) = 2
           \/ TreeIn(mention.attributes.parse_tree, appos[i].attributes.parse_tree)

\* mutant: pronouns removed like the other mentions
post_process_appositions_with_pronouns(mentions) ==
    IF ~AllHave(mentions, {"is_apposition"}) THEN Raise
    ELSE LET appos == SelectSeq(mentions,
                        LAMBDA mention : mention.attributes.is_apposition)
         IN  Ok(sorted(SelectSeq(mentions,
                    LAMBDA mention : ~EmbeddedInAppo(mention, appos))))

\* mutant: only the mentions that are no appositions are examined
post_process_appositions_others_only(mentions) ==
    IF ~AllHave(mentions, {"is_apposition"}) THEN Raise
    ELSE LET appos == SelectSeq(mentions,
                        LAMBDA mention : mention.attributes.is_apposition)
         IN  Ok(sorted(SelectSeq(mentions,
                    LAMBDA mention : \/ mention.attributes.is_apposition
                                     \/ mention.attributes.type = "PRO"
                                     \/ ~EmbeddedInAppo(mention, appos))))

post_process_appositions(mentions) ==
    IF ~AllHave(mentions, {"is_apposition"}) THEN Raise
    ELSE LET appos == SelectSeq(mentions,
                        LAMBDA mention : mention.attributes.is_apposition)
         IN  Ok(sorted(SelectSeq(mentions,
                    LAMBDA mention : \/ mention.attributes.type = "PRO"
                                     \/ ~EmbeddedInAppo(mention, appos))))

---------------------------------------------------------------------------
(* Documents: the inputs of the model. A document gives its tokens, their  *)
(* part-of-speech and named-entity tags, the annotated spans in the order  *)
(* it lists them, and per annotated span the head, type, apposition flag   *)
(* and parse tree that Mention.from_document reads.                        *)

Document(tokens, pos, ner, annotated_mentions, info) ==
    [tokens |-> tokens, pos |-> pos, ner |-> ner,
     annotated_mentions |-> annotated_mentions, info |-> info]

\* every order in which the spans of S can be listed
Orders(S) ==
    {q \in [1..Cardinality(S) -> S] :
        \A i, j \in 1..Cardinality(S) : i # j => q[i] # q[j]}

Ascending(S) ==
    CHOOSE q \in Orders(S) :
        \A i, j \in 1..Cardinality(S) : i < j => SpanLt(q[i], q[j])

SpanSets == {S \in SUBSET Spans(MaxPos) : Cardinality(S) \in 1..MaxMentions}

\* the documents of the apposition family are one token shorter
AppoPos == MaxPos - 1

AppoSpanSets ==
    {S \in SUBSET Spans(AppoPos) : Cardinality(S) \in 1..MaxMentions}

Within(s, t) == t[1] <= s[1] /\ s[2] <= t[2]

TreeX == Node("NP", <<Leaf("John")>>)
TreeY == Node("NP", <<Leaf("the"), Leaf("CEO")>>)
TreeZ == Node("NP", <<Leaf("x")>>)
TreeBinary == Node("NP", <<TreeX, TreeY>>)
TreeTernary == Node("NP", <<TreeX, Leaf(","), TreeY>>)

PlainInfo(span) ==
    [head_index |-> span[2] - span[1] - 1, head_span |-> <<span[2] - 1, span[2]>>,
     type |-> "NOM", is_apposition |-> FALSE, parse_tree |-> TreeZ]

Fill(n, x) == [i \in 1..n |-> x]

\* plain mentions, listed in the order q
OrderDocument(S, q) ==
    Document(Fill(MaxPos, "x"), Fill(MaxPos, "NN"), Fill(MaxPos, "O"), q,
             [s \in S |-> PlainInfo(s)])

\* mentions whose head spans are hs[s], spans within their own
HeadDocument(S, hs) ==
    Document(Fill(MaxPos, "x"), Fill(MaxPos, "NN"), Fill(MaxPos, "O"),
             Ascending(S),
             [s \in S |-> [PlainInfo(s) EXCEPT
                            !.head_span = hs[s],
                            !.head_index = hs[s][2] - 1 - s[1]]])

HeadSpanChoices(S) ==
    {h \in [S -> Spans(MaxPos)] : \A s \in S : Within(h[s], s)}

AppoProfiles ==
    {[type |-> "NOM", is_apposition |-> TRUE, parse_tree |-> TreeBinary],
     [type |-> "NOM", is_apposition |-> TRUE, parse_tree |-> TreeTernary],
     [type |-> "NOM", is_apposition |-> FALSE, parse_tree |-> TreeX],
     [type |-> "NOM", is_apposition |-> FALSE, parse_tree |-> TreeZ],
     [type |-> "PRO", is_apposition |-> FALSE, parse_tree |-> TreeX]}

\* mentions of either type, appositions or not, over the parse trees above
AppoDocument(S, pr) ==
    Document(Fill(AppoPos, "x"), Fill(AppoPos, "NN"), Fill(AppoPos, "O"),
             Ascending(S),
             [s \in S |-> [PlainInfo(s) EXCEPT
                            !.type = pr[s].type,
                            !.is_apposition = pr[s].is_apposition,
                            !.parse_tree = pr[s].parse_tree]])

TextVocabulary == {"it", "It", "you", "that", "know"}

TextSpans(n) == {s \in {<<0, 1>>, <<0, 2>>} : s[2] <= n}

\* one pronoun-like mention in a document of any tokens
TextDocument(tokens, s) ==
    Document(tokens, Fill(Len(tokens), "PRP"), Fill(Len(tokens), "O"), <<s>>,
             [t \in {s} |-> [PlainInfo(s) EXCEPT !.type = "PRO"]])

TagTokens == {"um", "Um", "US", "us", "U.S.", "mm", "five"}
TagPos == {"NN", "JJ", "JJR"}
TagNer == {"O", "MONEY", "GPE"}
TagTypes == {"NAM", "NOM"}

\* one mention of one token, over the tags and the fixed phrases
TagDocument(tok, p, n, ty) ==
    Document(<<tok>>, <<p>>, <<n>>, <<<<0, 1>>>>,
             [s \in {<<0, 1>>} |-> [PlainInfo(s) EXCEPT !.type = ty]])

\* one mention of two tokens whose head is token h
TagPairDocument(p, n, ty, h) ==
    Document(<<"five", "dollars">>, p, n, <<<<0, 2>>>>,
             [s \in {<<0, 2>>} |->
                [PlainInfo(s) EXCEPT !.type = ty, !.head_index = h,
                                     !.head_span = <<h, h + 1>>]])

\* the document of the end-to-end scenario: "US", "five dollars", "the CEO"
\* and the apposition "John , the CEO ," around it
ScenarioSpans == <<<<0, 1>>, <<1, 3>>, <<5, 7>>, <<3, 8>>>>

ScenarioDocument ==
    Document(<<"US", "five", "dollars", "John", ",", "the", "CEO", ",">>,
             <<"NNP", "CD", "NNS", "NNP", ",", "DT", "NN", ",">>,
             <<"GPE", "MONEY", "MONEY", "PERSON", "O", "O", "O", "O">>,
             ScenarioSpans,
             [s \in {ScenarioSpans[i] : i \in 1..4} |->
                CASE s = <<0, 1>> ->
                        [head_index |-> 0, head_span |-> <<0, 1>>, type |-> "NAM",
                         is_apposition |-> FALSE,
                         parse_tree |-> Node("NP", <<Leaf("US")>>)]
                  [] s = <<1, 3>> ->
                        [head_index |-> 1, head_span |-> <<2, 3>>, type |-> "NAM",
                         is_apposition |-> FALSE,
                         parse_tree |-> Node("NP", <<Leaf("five"), Leaf("dollars")>>)]
                  [] s = <<5, 7>> ->
                        [head_index |-> 1, head_span |-> <<6, 7>>, type |-> "NOM",
                         is_apposition |-> FALSE, parse_tree |-> TreeY]
                  [] s = <<3, 8>> ->
                        [head_index |-> 0, head_span |-> <<3, 4>>, type |-> "NAM",
                         is_apposition |-> TRUE, parse_tree |-> TreeBinary]])

InitDocument ==
    \/ \E S \in SpanSets : \E q \in Orders(S) : document = OrderDocument(S, q)
    \/ \E S \in SpanSets : \E hs \in HeadSpanChoices(S) :
            document = HeadDocument(S, hs)
    \/ \E S \in AppoSpanSets : \E pr \in [S -> AppoProfiles] :
            document = AppoDocument(S, pr)
    \/ \E n \in 1..MaxTokens : \E tokens \in [1..n -> TextVocabulary] :
            \E s \in TextSpans(n) : document = TextDocument(tokens, s)
    \/ \E tok \in TagTokens, p \in TagPos, n \in TagNer, ty \in TagTypes :
            document = TagDocument(tok, p, n, ty)
    \/ \E p \in [1..2 -> {"NN", "JJ"}], n \in [1..2 -> {"O", "MONEY"}],
          ty \in TagTypes, h \in 0..1 :
            document = TagPairDocument(p, n, ty, h)
    \/ document = ScenarioDocument

---------------------------------------------------------------------------
(* The state machine. A caller holds a document (pc = "document") and      *)
(* extracts its system mentions, or holds a list of mentions               *)
(* (pc = "mentions") and passes it to any filter stage; a stage that       *)
(* raises ends the run (pc = "raised") with the caller's list unchanged.   *)

StageNames ==
    <<"by_head_pos", "by_nam_type", "weird", "pleonastic_pronoun",
      "same_head_largest_span", "embedded_head_largest_span", "appositions">>

Init ==
    /\ InitDocument
    /\ \/ pc = "document" /\ system_mentions = <<>>
       \/ /\ pc = "mentions"
          /\ system_mentions =
                [i \in 1..Len(document.annotated_mentions) |->
                    Mention_from_document(document.annotated_mentions[i], document)]
    /\ stage = "none"
    /\ stage_input = <<>>
    /\ cascade = 0

ExtractSystemMentions ==
    /\ pc = "document"
    /\ \E filter_mentions \in BOOLEAN :
            system_mentions' = extract_system_mentions(document, filter_mentions)
    /\ pc' = "mentions"
    /\ stage' = "extract"
    /\ UNCHANGED <<document, stage_input, cascade>>

\* system_mentions = post_process_...(system_mentions), the k-th stage of the
\* configured order; cascade counts the stages applied so far when they are
\* exactly the first ones of that order, and is -1 otherwise
Apply(k, result) ==
    /\ pc = "mentions"
    /\ stage' = StageNames[k]
    /\ stage_input' = system_mentions
    /\ cascade' = IF cascade = k - 1 THEN k ELSE -1
    /\ IF result.ok
       THEN system_mentions' = result.val /\ pc' = "mentions"
       ELSE system_mentions' = system_mentions /\ pc' = "raised"
    /\ UNCHANGED document

PostProcessByHeadPos == Apply(1, post_process_by_head_pos(system_mentions))

PostProcessByNamType == Apply(2, post_process_by_nam_type(system_mentions))

PostProcessWeird == Apply(3, post_process_weird(system_mentions))

PostProcessPleonasticPronoun ==
    Apply(4, post_process_pleonastic_pronoun(system_mentions))

PostProcessSameHeadLargestSpan ==
    Apply(5, post_process_same_head_largest_span(system_mentions))

PostProcessEmbeddedHeadLargestSpan ==
    Apply(6, post_process_embedded_head_largest_span(system_mentions))

PostProcessAppositions == Apply(7, post_process_appositions(system_mentions))

Next ==
    \/ ExtractSystemMentions
    \/ PostProcessByHeadPos
    \/ PostProcessByNamType
    \/ PostProcessWeird
    \/ PostProcessPleonasticPronoun
    \/ PostProcessSameHeadLargestSpan
    \/ PostProcessEmbeddedHeadLargestSpan
    \/ PostProcessAppositions

Spec == Init /\ [][Next]_vars

---------------------------------------------------------------------------
(* Properties. *)

Elements(list) == {list[i] : i \in 1..Len(list)}

DummyCount(list) == Cardinality({i \in 1..Len(list) : is_dummy(list[i])})

Stages == {StageNames[k] : k \in 1..Len(StageNames)}

\* a stage has just returned (it did not raise)
Returned(name) == stage = name /\ pc = "mentions"

Ascends(list) ==
    \A i, j \in 1..Len(list) : i < j => MentionLt(list[i], list[j])

StageResult(k, mentions) ==
    CASE k = 1 -> post_process_by_head_pos(mentions)
      [] k = 2 -> post_process_by_nam_type(mentions)
      [] k = 3 -> post_process_weird(mentions)
      [] k = 4 -> post_process_pleonastic_pronoun(mentions)
      [] k = 5 -> post_process_same_head_largest_span(mentions)
      [] k = 6 -> post_process_embedded_head_largest_span(mentions)
      [] k = 7 -> post_process_appositions(mentions)

\* C1: a stage given a list with exactly one dummy mention completes without
\* error and returns a list with exactly one dummy mention.
C1_DummySurvivesEveryStage ==
    (stage \in Stages /\ DummyCount(stage_input) = 1)
        => (pc # "raised" /\ DummyCount(system_mentions) = 1)

SpansOf(list) == [i \in 1..Len(list) |-> list[i].span]

NonDummy(list) == SelectSeq(list, LAMBDA m : ~is_dummy(m))

\* the cascade 4.2 .. 4.8 has run to its end on the scenario document's
\* mentions
ScenarioCascadeDone ==
    document = ScenarioDocument /\ cascade = 7 /\ pc = "mentions"

C3_ExtractSortedBySpan ==
    stage = "extract" =>
        /\ Len(system_mentions) = 1 + Len(document.annotated_mentions)
        /\ is_dummy(system_mentions[1])
        /\ DummyCount(system_mentions) = 1
        /\ {system_mentions[i].span : i \in 2..Len(system_mentions)}
                = Elements(document.annotated_mentions)
        /\ Ascends(system_mentions)

\* C4: every stage is idempotent: the list a stage has returned is returned
\* unchanged by a second application of the same stage.
C4_Idempotent ==
    \A k \in 1..Len(StageNames) :
        Returned(StageNames[k])
            => StageResult(k, system_mentions) = Ok(system_mentions)

\* a context-dependent stage has removed a mention and kept another
C4_Witness ==
    /\ \/ Returned("same_head_largest_span")
       \/ Returned("embedded_head_largest_span")
       \/ Returned("appositions")
    /\ Len(system_mentions) >= 1
    /\ Len(system_mentions) < Len(stage_input)

SpanLength(m) == m.span[2] - m.span[1]

SameHeadGroup(list, head_span) ==
    {m \in Elements(list) : m.attributes.head_span = head_span}

\* C5: post_process_same_head_largest_span returns, sorted by span, exactly
\* one mention per head span of its input: a member of that group of maximal
\* span length, and among those of maximal length the last in span order.
C5_SameHeadLargestSpan ==
    Returned("same_head_largest_span") =>
        /\ Ascends(system_mentions)
        /\ Elements(system_mentions) \subseteq Elements(stage_input)
        /\ \A m \in Elements(stage_input) :
            LET group == SameHeadGroup(stage_input, m.attributes.head_span)
                kept == SameHeadGroup(system_mentions, m.attributes.head_span)
            IN  /\ Cardinality(kept) = 1
                /\ \A w \in kept : \A g \in group :
                        \/ SpanLength(g) < SpanLength(w)
                        \/ /\ SpanLength(g) = SpanLength(w)
                           /\ (g = w \/ SpanLt(g.span, w.span))
        /\ Len(system_mentions)
                = Cardinality({m.attributes.head_span : m \in Elements(stage_input)})

\* two mentions of one head span and one length: the tie
C5_Witness ==
    /\ Returned("same_head_largest_span")
    /\ \E m, g \in Elements(stage_input) :
        /\ m # g
        /\ m.attributes.head_span = g.attributes.head_span
        /\ SpanLength(m) = SpanLength(g)
        /\ SpanLt(m.span, g.span)
        /\ g \in Elements(system_mentions)
        /\ m \notin Elements(system_mentions)

HeadEmbedded(m, list) ==
    \E o \in Elements(list) :
        /\ o.attributes.head_span[2] = m.attributes.head_span[2]
        /\ o.attributes.head_span[1] < m.attributes.head_span[1]

\* C6: post_process_embedded_head_largest_span removes a mention iff some
\* mention of its input has a head span with the same end and a strictly
\* smaller begin; the others are all kept, sorted by span.
C6_EmbeddedHead ==
    Returned("embedded_head_largest_span") =>
        /\ Ascends(system_mentions)
        /\ Elements(system_mentions) \subseteq Elements(stage_input)
        /\ Len(system_mentions) = Cardinality(Elements(system_mentions))
        /\ \A m \in Elements(stage_input) :
            m \notin Elements(system_mentions) <=> HeadEmbedded(m, stage_input)

\* a mention removed, the mention whose head embeds its head kept
C6_Witness ==
    /\ Returned("embedded_head_largest_span")
    /\ \E m \in Elements(stage_input) :
        /\ m \notin Elements(system_mentions)
        /\ \E o \in Elements(system_mentions) :
            /\ o.attributes.head_span[2] = m.attributes.head_span[2]
            /\ o.attributes.head_span[1] < m.attributes.head_span[1]

StrictlyContains(outer, inner) ==
    /\ outer[1] <= inner[1]
    /\ inner[2] <= outer[2]
    /\ outer # inner

\* m lies strictly within an apposition of the list that has two children or
\* holds m's parse tree
InApposition(m, list) ==
    \E a \in Elements(list) :
        /\ a.attributes.is_apposition
        /\ StrictlyContains(a.span, m.span)
        /\ \/ Len(a.attributes.parse_tree.kids) = 2
           \/ \E i \in 1..Len(a.attributes.parse_tree.kids) :
                a.attributes.parse_tree.kids[i] = m.attributes.parse_tree

\* C7: post_process_appositions removes a mention not flagged is_apposition
\* iff its type is not PRO and it lies strictly within an is_apposition mention
\* that has exactly two children or whose parse tree contains its parse tree.
C7_Appositions ==
    Returned("appositions") =>
        /\ Ascends(system_mentions)
        /\ Elements(system_mentions) \subseteq Elements(stage_input)
        /\ \A m \in Elements(stage_input) :
            ~m.attributes.is_apposition =>
                (m \notin Elements(system_mentions)
                    <=> (m.attributes.type # "PRO" /\ InApposition(m, stage_input)))

\* a non-pronoun removed through the parse-tree containment branch
C7_Witness ==
    /\ Returned("appositions")
    /\ \E m \in Elements(stage_input) :
        /\ ~m.attributes.is_apposition
        /\ m \notin Elements(system_mentions)
        /\ \A a \in Elements(stage_input) :
            a.attributes.is_apposition => Len(a.attributes.parse_tree.kids) # 2

\* C8 as stated: a mention flagged is_apposition is always in the output of
\* post_process_appositions.
C8_AppositionsAlwaysKept ==
    Returned("appositions") =>
        \A m \in Elements(stage_input) :
            m.attributes.is_apposition => m \in Elements(system_mentions)

\* C8, amended: a mention flagged is_apposition is removed under the rule of
\* every other mention (type not PRO, strictly within another is_apposition
\* mention that has two children or holds its parse tree), and is in the
\* output otherwise.
C8_AppositionsSameRule ==
    Returned("appositions") =>
        \A m \in Elements(stage_input) :
            m.attributes.is_apposition =>
                (m \notin Elements(system_mentions)
                    <=> (m.attributes.type # "PRO" /\ InApposition(m, stage_input)))

C8_Witness ==
    /\ Returned("appositions")
    /\ \E m \in Elements(stage_input) :
        /\ m.attributes.is_apposition
        /\ m \notin Elements(system_mentions)
    /\ \E a \in Elements(system_mentions) : a.attributes.is_apposition

\* the token at offset n after the mention is "that"
ThatAt(m, n) ==
    /\ m.span[2] + n <= Len(document.tokens)
    /\ document.tokens[m.span[2] + n] = "that"

AtMostOnePerHeadEnd(list) ==
    \A i, j \in 1..Len(list) :
        list[i].attributes.head_span[2] = list[j].attributes.head_span[2] => i = j

\* C10: the same-head and embedded-head stages commute on lists of non-dummy
\* mentions, and the common result holds at most one mention per head-span end.
C10_SameHeadEmbeddedHeadCommute ==
    /\ Returned("same_head_largest_span") =>
        LET then_embedded == post_process_embedded_head_largest_span(system_mentions)
            embedded_first == post_process_embedded_head_largest_span(stage_input)
        IN  /\ then_embedded.ok /\ embedded_first.ok
            /\ then_embedded = post_process_same_head_largest_span(embedded_first.val)
            /\ AtMostOnePerHeadEnd(then_embedded.val)
    /\ Returned("embedded_head_largest_span") =>
        LET then_same == post_process_same_head_largest_span(system_mentions)
            same_first == post_process_same_head_largest_span(stage_input)
        IN  /\ then_same.ok /\ same_first.ok
            /\ then_same = post_process_embedded_head_largest_span(same_first.val)
            /\ AtMostOnePerHeadEnd(then_same.val)

\* the embedded-head stage has removed a mention that the same-head stage
\* alone would have kept
C10_Witness ==
    /\ Returned("embedded_head_largest_span")
    /\ Len(system_mentions) < Len(stage_input)
    /\ post_process_same_head_largest_span(stage_input) = Ok(sorted(stage_input))

====
